---- MODULE Spec2Model ----
(***************************************************************************)
(* Model of the DUNL knowledge-graph pipeline:                             *)
(*   ingest_dunl.py        raw CSVs  -> data/processed/*.json              *)
(*   enrich_metadata.py    processed -> data/enriched/dashboard_payload    *)
(*   generate_dashboard.py payload   -> index.html                         *)
(*                                                                         *)
(* A Python str is a sequence of one-character strings.  A pandas NaN (an  *)
(* empty CSV cell, a float) is the one-element sequence NaN, whose element *)
(* is no character.  A file is <<>> when absent and <<content>> otherwise. *)
(***************************************************************************)
EXTENDS Integers, Sequences, FiniteSets, TLC

VARIABLES
    fs,             \* the file system: path -> <<>> (absent) or <<content>>
    pc,             \* next step of the pipeline run
    ingestOut,      \* outcome of ingest_dunl.py
    enrichOut,      \* outcome of enrich_metadata.py
    renderOut,      \* outcome of generate_dashboard.py
    ports,          \* enrich_metadata.py: ports (json.load)
    benchmarks,     \* enrich_metadata.py: benchmarks
    currencies,     \* enrich_metadata.py: currencies
    scores,         \* what fuzz.partial_token_sort_ratio returned: <<desc, name>> -> score
    matches,        \* what process.extractOne returned, one per benchmark
    dynamic_links,  \* enrich_metadata.py: dynamic_links
    fetchFailed,    \* an exception was raised inside fetch_market_data's try block
    market_data,    \* enrich_metadata.py: market_data
    graph_data,     \* enrich_metadata.py: graph_data
    renderInput,    \* generate_dashboard.py: payload, <<>> before it is read
    text,           \* clean_text harness: the input string
    once,           \* clean_text(text)
    twice,          \* clean_text(clean_text(text))
    cpc             \* clean_text harness: position

vars == <<fs, pc, ingestOut, enrichOut, renderOut, ports, benchmarks, currencies,
          scores, matches, dynamic_links, fetchFailed, market_data, graph_data,
          renderInput, text, once, twice, cpc>>

pipeVars == <<fs, pc, ingestOut, enrichOut, renderOut, ports, benchmarks, currencies,
              scores, matches, dynamic_links, fetchFailed, market_data, graph_data,
              renderInput>>

cleanVars == <<text, once, twice, cpc>>

(***************************************************************************)
(* Bounds of the model.                                                    *)
(***************************************************************************)
MaxTextLen == 5

MaxPorts == 2

MaxBench == 2

(***************************************************************************)
(* Strings.                                                                *)
(***************************************************************************)
NaN == <<"NaN">>

AttributeError == <<"AttributeError">>

IsStr(x) == x # NaN

Front(s) == SubSeq(s, 1, Len(s) - 1)

Last(s) == s[Len(s)]

\* str.replace(word, ''): the non-overlapping occurrences of word, found
\* scanning from the left, are removed in a single pass.
RECURSIVE Remove(_, _)
Remove(t, word) ==
    IF Len(t) < Len(word) THEN t
    ELSE IF SubSeq(t, 1, Len(word)) = word
         THEN Remove(SubSeq(t, Len(word) + 1, Len(t)), word)
         ELSE <<Head(t)>> \o Remove(Tail(t), word)

Whitespace == {" "}

RECURSIVE LStrip(_)
LStrip(t) == IF t # <<>> /\ Head(t) \in Whitespace THEN LStrip(Tail(t)) ELSE t

RECURSIVE RStrip(_)
RStrip(t) == IF t # <<>> /\ Last(t) \in Whitespace THEN RStrip(Front(t)) ELSE t

\* str.strip()
Strip(t) == RStrip(LStrip(t))

PortCharge == <<"P", "o", "r", "t", " ", "C", "h", "a", "r", "g", "e">>

DisportCharge == <<"D", "i", "s", "p", "o", "r", "t", " ", "C", "h", "a", "r", "g", "e">>

noise_words ==
    << <<"F", "O", "B">>, <<"C", "I", "F">>, <<"C", "F", "R">>, <<"D", "E", "S">>,
       PortCharge, DisportCharge,
       <<"C", "a", "r", "g", "o">>, <<"B", "l", "e", "n", "d">>,
       <<"S", "t", "r", "i", "p">>, <<"v", "s">> >>

\* for word in noise_words: text = text.replace(word, '')
RECURSIVE RemoveWords(_, _)
RemoveWords(t, words) ==
    IF words = <<>> THEN t
    ELSE RemoveWords(Remove(t, Head(words)), Tail(words))

\* clean_text(text); text.replace raises AttributeError when text is a float
clean_text(t) ==
    IF ~IsStr(t) THEN AttributeError
    ELSE Strip(RemoveWords(Remove(t, <<".">>), noise_words))

(***************************************************************************)
(* clean_text applied once and twice to every short string.                *)
(***************************************************************************)
Alphabet == {"F", "O", "B", "v", "s", " ", "."}

Texts == UNION {[1..n -> Alphabet] : n \in 0..MaxTextLen}

CleanOnce ==
    /\ cpc = "input"
    /\ once' = clean_text(text)
    /\ cpc' = "once"
    /\ UNCHANGED <<text, twice>>
    /\ UNCHANGED pipeVars

CleanTwice ==
    /\ cpc = "once"
    /\ twice' = clean_text(once)
    /\ cpc' = "twice"
    /\ UNCHANGED <<text, once>>
    /\ UNCHANGED pipeVars

(***************************************************************************)
(* Static configuration.                                                   *)
(***************************************************************************)
SYMBOL_MAP ==
    ("AAGZU00" :> "CL=F") @@ ("TS01021" :> "TI=F") @@ ("AAIDC00" :> "HO=F") @@
    ("AAGJA00" :> "RB=F") @@ ("TS01034" :> "MTF=F") @@ ("WAUSA00" :> "ZW=F") @@
    ("SP500" :> "^GSPC")

\* the keys of PORT_COORDINATES (the coordinates themselves are only copied)
PORT_COORDINATES ==
    {"TAIPA00", "ALEDC00", "ALGDC00", "TYNPA00", "WILDC00", "TVAPC00", "ROT", "SIN", "HOU"}

RAW_PORTS == "data/raw/port_Port Charges Location Data.csv"

RAW_BENCHMARKS == "data/raw/symbols _Platts Benchmarks.csv"

RAW_CURRENCIES == "data/raw/currency.csv"

PORTS_JSON == "data/processed/ports.json"

BENCHMARKS_JSON == "data/processed/benchmarks.json"

CURRENCIES_JSON == "data/processed/currencies.json"

\* written by enrich_metadata.py
PAYLOAD_JSON == "data/enriched/dashboard_payload.json"

\* read by generate_dashboard.py
DASHBOARD_DATA_JSON == "data/processed/dashboard_data.json"

OUTPUT_FILE == "index.html"

Paths ==
    {RAW_PORTS, RAW_BENCHMARKS, RAW_CURRENCIES, PORTS_JSON, BENCHMARKS_JSON,
     CURRENCIES_JSON, PAYLOAD_JSON, DASHBOARD_DATA_JSON, OUTPUT_FILE}

Exists(path) == fs[path] # <<>>

Content(path) == fs[path][1]

(***************************************************************************)
(* ingest_dunl.py.  A CSV is [cols, rows]; a URI is the sequence of its    *)
(* '/'-separated segments; a cell of a column the file lacks is never read.*)
(* Of a record only the fields a later stage reads are kept (region, lat,  *)
(* lng, uom and dunl_uri are copied through and never read).               *)
(***************************************************************************)
\* url_id.split('/')[-1], "" for NaN
clean_dunl_id(url_id) == IF url_id = NaN THEN "" ELSE Last(url_id)

\* row.get(col, default)
Get(csv, row, col, default) == IF col \in csv.cols THEN row[col] ELSE default

UnknownPort == <<"U", "n", "k", "n", "o", "w", "n", " ", "P", "o", "r", "t">>

RECURSIVE PortRecords(_, _)
PortRecords(csv, rows) ==
    IF rows = <<>> THEN <<>>
    ELSE LET row == Head(rows)
             pid == clean_dunl_id(row.ID)
         IN  (IF pid \in PORT_COORDINATES
              THEN << [id |-> pid, name |-> Get(csv, row, "port", UnknownPort)] >>
              ELSE <<>>)
             \o PortRecords(csv, Tail(rows))

RECURSIVE BenchmarkRecords(_, _)
BenchmarkRecords(csv, rows) ==
    IF rows = <<>> THEN <<>>
    ELSE LET row == Head(rows)
         IN  << [id          |-> clean_dunl_id(row.ID),
                 symbol      |-> Get(csv, row, "symbol", "N/A"),
                 description |-> Get(csv, row, "description", <<>>),
                 commodity   |-> Get(csv, row, "commodity", "General"),
                 currency    |-> Get(csv, row, "currency", "USD")] >>
             \o BenchmarkRecords(csv, Tail(rows))

RECURSIVE CurrencyRecords(_, _)
CurrencyRecords(csv, rows) ==
    IF rows = <<>> THEN <<>>
    ELSE LET row == Head(rows)
         IN  << [code  |-> Get(csv, row, "currencyCode", "N/A"),
                 label |-> Get(csv, row, "currencyLabel", "")] >>
             \o CurrencyRecords(csv, Tail(rows))

\* the three calls sit in one try block: the first FileNotFoundError is caught
\* at the top level, printed, and the script ends
IngestPorts ==
    /\ pc = "ingest_ports"
    /\ IF ~Exists(RAW_PORTS)
       THEN /\ ingestOut' = "FileNotFoundError"
            /\ pc' = "enrich_load"
            /\ fs' = fs
       ELSE /\ fs' = [fs EXCEPT ![PORTS_JSON] =
                         << PortRecords(Content(RAW_PORTS), Content(RAW_PORTS).rows) >>]
            /\ pc' = "ingest_benchmarks"
            /\ ingestOut' = ingestOut
    /\ UNCHANGED <<enrichOut, renderOut, ports, benchmarks, currencies, scores, matches,
                   dynamic_links, fetchFailed, market_data, graph_data, renderInput>>
    /\ UNCHANGED cleanVars

IngestBenchmarks ==
    /\ pc = "ingest_benchmarks"
    /\ IF ~Exists(RAW_BENCHMARKS)
       THEN /\ ingestOut' = "FileNotFoundError"
            /\ pc' = "enrich_load"
            /\ fs' = fs
       ELSE /\ fs' = [fs EXCEPT ![BENCHMARKS_JSON] =
                         << BenchmarkRecords(Content(RAW_BENCHMARKS),
                                             Content(RAW_BENCHMARKS).rows) >>]
            /\ pc' = "ingest_currencies"
            /\ ingestOut' = ingestOut
    /\ UNCHANGED <<enrichOut, renderOut, ports, benchmarks, currencies, scores, matches,
                   dynamic_links, fetchFailed, market_data, graph_data, renderInput>>
    /\ UNCHANGED cleanVars

IngestCurrencies ==
    /\ pc = "ingest_currencies"
    /\ IF ~Exists(RAW_CURRENCIES)
       THEN /\ ingestOut' = "FileNotFoundError"
            /\ fs' = fs
       ELSE /\ fs' = [fs EXCEPT ![CURRENCIES_JSON] =
                         << CurrencyRecords(Content(RAW_CURRENCIES),
                                            Content(RAW_CURRENCIES).rows) >>]
            /\ ingestOut' = "complete"
    /\ pc' = "enrich_load"
    /\ UNCHANGED <<enrichOut, renderOut, ports, benchmarks, currencies, scores, matches,
                   dynamic_links, fetchFailed, market_data, graph_data, renderInput>>
    /\ UNCHANGED cleanVars

(***************************************************************************)
(* enrich_metadata.py: resolve_logistics_links.                            *)
(* rapidfuzz is a library: fuzz.partial_token_sort_ratio is any function   *)
(* of the two strings that scores two equal non-empty strings 100 and any  *)
(* other pair just below, at or just above the threshold; and              *)
(* process.extractOne returns None for no choices and otherwise one of the *)
(* best-scoring choices.                                                   *)
(***************************************************************************)
MatchThreshold == 80

ScoreVals == {MatchThreshold - 1, MatchThreshold, MatchThreshold + 1}

\* the pairs whose score the library is free to choose
FreePairs(queries, choices) == {pr \in queries \X choices : pr[1] # pr[2] \/ pr[1] = <<>>}

\* the tables of scores partial_token_sort_ratio may produce
Scorers(queries, choices) ==
    { [pr \in queries \X choices |-> IF pr \in FreePairs(queries, choices) THEN f[pr] ELSE 100] :
        f \in [FreePairs(queries, choices) -> ScoreVals] }

Indices(s) == 1..Len(s)

\* clean_text raises while port_lookup is built
PortNameRaises(ps) == \E i \in Indices(ps) : clean_text(ps[i].name) = AttributeError

\* {clean_text(p['name']): p['id'] for p in ports}: a later port overwrites
\* an earlier one with the same cleaned name
RECURSIVE port_lookup(_)
port_lookup(ps) ==
    IF ps = <<>> THEN [n \in {} |-> ""]
    ELSE LET prev == port_lookup(Front(ps))
             p    == Last(ps)
             key  == clean_text(p.name)
         IN  [n \in (DOMAIN prev) \cup {key} |-> IF n = key THEN p.id ELSE prev[n]]

\* the index of the first benchmark whose description makes clean_text raise,
\* Len(bs) + 1 when there is none
RECURSIVE FirstRaise(_, _)
FirstRaise(bs, i) ==
    IF i > Len(bs) THEN i
    ELSE IF clean_text(bs[i].description) = AttributeError THEN i
    ELSE FirstRaise(bs, i + 1)

\* the results process.extractOne may return: <<>> is None
ExtractOne(sc, query, choices) ==
    IF choices = {} THEN { <<>> }
    ELSE { << [name |-> n, score |-> sc[<<query, n>>]] >> :
             n \in {c \in choices : \A d \in choices : sc[<<query, d>>] <= sc[<<query, c>>]} }

\* a threshold that lets a score of exactly 80 through
AcceptsAtThreshold(score) == score >= MatchThreshold

\* if score > 80
Accepts(score) == score > MatchThreshold

\* the body of the loop for one benchmark: the links it appends
LinkFor(b, match, lookup) ==
    IF match # <<>> /\ Accepts(match[1].score)
    THEN << [from  |-> b.id,
             to    |-> lookup[match[1].name],
             label |-> "Pricing Location",
             color |-> "#64748b"] >>
    ELSE <<>>

RECURSIVE LinksUpTo(_, _, _, _)
LinksUpTo(bs, ms, lookup, n) ==
    IF n = 0 THEN <<>>
    ELSE LinksUpTo(bs, ms, lookup, n - 1) \o LinkFor(bs[n], ms[n], lookup)

\* resolve_logistics_links(benchmarks, ports), given what extractOne returned
\* for each benchmark: the list of links, or AttributeError
ResolveRaises(bs, ps) == PortNameRaises(ps) \/ FirstRaise(bs, 1) <= Len(bs)

resolve_logistics_links(bs, ps, ms) ==
    IF ResolveRaises(bs, ps) THEN AttributeError
    ELSE LinksUpTo(bs, ms, port_lookup(ps), Len(bs))

(***************************************************************************)
(* enrich_metadata.py: fetch_market_data.  yfinance is a library: the      *)
(* download raises, or returns a frame of closing prices with some of the  *)
(* tickers as columns; a price is <<>> (NaN) or <<v>>.                     *)
(***************************************************************************)
EmptyMarket == [dates |-> <<>>, datasets |-> [i \in {} |-> <<>>]]

Tickers == {SYMBOL_MAP[i] : i \in DOMAIN SYMBOL_MAP}

FetchOutcomes ==
    { [raises |-> TRUE, index |-> <<>>, columns |-> {}, close |-> <<>>] }
    \cup
    { [raises |-> FALSE, index |-> <<"Jan 02", "Jan 03", "Jan 04">>, columns |-> cols,
       close |-> << <<>>, <<7>>, <<>> >>] : cols \in {Tickers, Tickers \ {"^GSPC"}} }

\* fillna(method='ffill')
RECURSIVE FFill(_, _)
FFill(series, prev) ==
    IF series = <<>> THEN <<>>
    ELSE LET v == IF Head(series) = <<>> THEN prev ELSE Head(series)
         IN  <<v>> \o FFill(Tail(series), v)

\* fillna(0) ... tolist()
FillZero(series) == [i \in Indices(series) |-> IF series[i] = <<>> THEN 0 ELSE series[i][1]]

\* the except branch returns mock data, as its message says, instead of the empty result
fetch_market_data_mock(outcome) ==
    IF outcome.raises
    THEN [dates |-> <<"Jan 01">>, datasets |-> [i \in DOMAIN SYMBOL_MAP |-> <<0>>]]
    ELSE [dates    |-> outcome.index,
          datasets |-> [i \in {d \in DOMAIN SYMBOL_MAP : SYMBOL_MAP[d] \in outcome.columns}
                          |-> FillZero(FFill(outcome.close, <<>>))]]

fetch_market_data(outcome) ==
    IF outcome.raises THEN EmptyMarket
    ELSE [dates    |-> outcome.index,
          datasets |-> [i \in {d \in DOMAIN SYMBOL_MAP : SYMBOL_MAP[d] \in outcome.columns}
                          |-> FillZero(FFill(outcome.close, <<>>))]]

(***************************************************************************)
(* enrich_metadata.py: build_knowledge_graph.                              *)
(***************************************************************************)
\* one pass of "for b in benchmarks" over acc = [nodes, edges, existing_nodes]
AddBenchmark(b, acc) ==
    IF b.id \notin DOMAIN SYMBOL_MAP THEN acc
    ELSE LET n1 == Append(acc.nodes, [id |-> b.id, label |-> b.symbol,
                                      group |-> "benchmark", value |-> 25])
             x1 == acc.existing_nodes \cup {b.id}
             comm_id == b.commodity
             n2 == IF comm_id \notin x1
                   THEN Append(n1, [id |-> comm_id, label |-> comm_id,
                                    group |-> "commodity", value |-> 40])
                   ELSE n1
             x2 == x1 \cup {comm_id}
             e1 == Append(acc.edges, [from |-> comm_id, to |-> b.id,
                                      label |-> "", color |-> "#f97316"])
             n3 == IF b.currency \notin x2
                   THEN Append(n2, [id |-> b.currency, label |-> b.currency,
                                    group |-> "currency", value |-> 15])
                   ELSE n2
             x3 == x2 \cup {b.currency}
             e2 == Append(e1, [from |-> b.id, to |-> b.currency,
                               label |-> "", color |-> "#10b981"])
         IN  [nodes |-> n3, edges |-> e2, existing_nodes |-> x3]

RECURSIVE AddBenchmarks(_, _)
AddBenchmarks(bs, acc) ==
    IF bs = <<>> THEN acc ELSE AddBenchmarks(Tail(bs), AddBenchmark(Head(bs), acc))

\* every ingested port becomes a node
PortListedAlways(p, linked_port_ids) == TRUE

\* "if p['id'] in linked_port_ids": existing_nodes is not consulted
PortListed(p, linked_port_ids) == p.id \in linked_port_ids

\* p['name'].replace(' Port Charge','').replace(' Disport Charge','')
PortLabel(name) == Remove(Remove(name, <<" ">> \o PortCharge), <<" ">> \o DisportCharge)

RECURSIVE AddPorts(_, _, _)
AddPorts(ps, nodes, linked_port_ids) ==
    IF ps = <<>> THEN nodes
    ELSE AddPorts(Tail(ps),
                  IF PortListed(Head(ps), linked_port_ids)
                  THEN Append(nodes, [id |-> Head(ps).id, label |-> PortLabel(Head(ps).name),
                                      group |-> "port", value |-> 20])
                  ELSE nodes,
                  linked_port_ids)

build_knowledge_graph(ps, bs, cs, links) ==
    LET acc == AddBenchmarks(bs, [nodes |-> <<>>, edges |-> links, existing_nodes |-> {}])
        linked_port_ids == {links[i].to : i \in Indices(links)}
    IN  [nodes |-> AddPorts(ps, acc.nodes, linked_port_ids), edges |-> acc.edges]

\* the payload keeps every benchmark
InWhitelistAlways(b) == TRUE

\* [b for b in benchmarks if b['id'] in SYMBOL_MAP]
InWhitelist(b) == b.id \in DOMAIN SYMBOL_MAP

PayloadBenchmarks(bs) == SelectSeq(bs, InWhitelist)

final_payload ==
    [ports       |-> ports,
     benchmarks  |-> PayloadBenchmarks(benchmarks),
     market_data |-> market_data,
     graph       |-> graph_data]

(***************************************************************************)
(* enrich_metadata.py: the script.  An exception that reaches the top      *)
(* level ends the script; the run then goes on to the renderer.            *)
(***************************************************************************)
NotLoaded == [unset |-> TRUE]

EnrichLoad ==
    /\ pc = "enrich_load"
    /\ IF Exists(PORTS_JSON) /\ Exists(BENCHMARKS_JSON) /\ Exists(CURRENCIES_JSON)
       THEN /\ ports' = Content(PORTS_JSON)
            /\ benchmarks' = Content(BENCHMARKS_JSON)
            /\ currencies' = Content(CURRENCIES_JSON)
            /\ enrichOut' = "running"
            /\ pc' = "enrich_resolve"
       ELSE /\ enrichOut' = "FileNotFoundError"
            /\ pc' = "render"
            /\ UNCHANGED <<ports, benchmarks, currencies>>
    /\ UNCHANGED <<fs, ingestOut, renderOut, scores, matches, dynamic_links, fetchFailed,
                   market_data, graph_data, renderInput>>
    /\ UNCHANGED cleanVars

\* the cleaned descriptions the loop passes to extractOne
Queries(bs) == {clean_text(bs[i].description) : i \in Indices(bs)}

EnrichResolve ==
    /\ pc = "enrich_resolve"
    /\ IF ResolveRaises(benchmarks, ports)
       THEN /\ enrichOut' = "AttributeError"
            /\ pc' = "render"
            /\ UNCHANGED <<scores, matches, dynamic_links>>
       ELSE LET port_names == DOMAIN port_lookup(ports)
                queries == Queries(benchmarks)
            IN  \E sc \in Scorers(queries, port_names) :
                \E best \in [queries -> UNION {ExtractOne(sc, q, port_names) : q \in queries}] :
                    /\ \A q \in queries : best[q] \in ExtractOne(sc, q, port_names)
                    /\ scores' = sc
                    /\ matches' = [i \in Indices(benchmarks) |->
                                     best[clean_text(benchmarks[i].description)]]
                    /\ dynamic_links' = resolve_logistics_links(benchmarks, ports, matches')
                    /\ pc' = "enrich_fetch"
                    /\ enrichOut' = enrichOut
    /\ UNCHANGED <<fs, ingestOut, renderOut, ports, benchmarks, currencies, fetchFailed,
                   market_data, graph_data, renderInput>>
    /\ UNCHANGED cleanVars

EnrichFetch ==
    /\ pc = "enrich_fetch"
    /\ \E outcome \in FetchOutcomes :
          /\ fetchFailed' = outcome.raises
          /\ market_data' = fetch_market_data(outcome)
    /\ pc' = "enrich_build"
    /\ UNCHANGED <<fs, ingestOut, enrichOut, renderOut, ports, benchmarks, currencies,
                   scores, matches, dynamic_links, graph_data, renderInput>>
    /\ UNCHANGED cleanVars

EnrichBuild ==
    /\ pc = "enrich_build"
    /\ graph_data' = build_knowledge_graph(ports, benchmarks, currencies, dynamic_links)
    /\ pc' = "enrich_write"
    /\ UNCHANGED <<fs, ingestOut, enrichOut, renderOut, ports, benchmarks, currencies,
                   scores, matches, dynamic_links, fetchFailed, market_data, renderInput>>
    /\ UNCHANGED cleanVars

EnrichWrite ==
    /\ pc = "enrich_write"
    /\ fs' = [fs EXCEPT ![PAYLOAD_JSON] = <<final_payload>>]
    /\ enrichOut' = "complete"
    /\ pc' = "render"
    /\ UNCHANGED <<ingestOut, renderOut, ports, benchmarks, currencies, scores, matches,
                   dynamic_links, fetchFailed, market_data, graph_data, renderInput>>
    /\ UNCHANGED cleanVars

(***************************************************************************)
(* generate_dashboard.py: generate.  The template is rendered with the     *)
(* payload; the document written is modelled by the payload it shows.      *)
(***************************************************************************)
Render ==
    /\ pc = "render"
    /\ IF Exists(DASHBOARD_DATA_JSON)
       THEN /\ renderInput' = fs[DASHBOARD_DATA_JSON]
            /\ fs' = [fs EXCEPT ![OUTPUT_FILE] = fs[DASHBOARD_DATA_JSON]]
            /\ renderOut' = "complete"
       ELSE /\ renderOut' = "FileNotFoundError"
            /\ UNCHANGED <<fs, renderInput>>
    /\ pc' = "end"
    /\ UNCHANGED <<ingestOut, enrichOut, ports, benchmarks, currencies, scores, matches,
                   dynamic_links, fetchFailed, market_data, graph_data>>
    /\ UNCHANGED cleanVars

(***************************************************************************)
(* Inputs.                                                                 *)
(***************************************************************************)
SeqsUpTo(S, n) == UNION {[1..k -> S] : k \in 0..n}

Uri(id) == <<"https:", "", "dunl.org", id>>

PortRowPool ==
    { [ID |-> Uri("SIN"), port |-> <<"S">>],
      [ID |-> Uri("ROT"), port |-> <<"S", ".">>],
      [ID |-> Uri("ROT"), port |-> <<"R", " ">> \o PortCharge],
      [ID |-> Uri("XXX"), port |-> <<"R">>],
      [ID |-> Uri("SIN"), port |-> NaN] }

BenchRowPool ==
    { [ID |-> Uri("SP500"), symbol |-> "SPX", description |-> <<"S">>,
       commodity |-> "Index", currency |-> "USD"],
      [ID |-> Uri("XB1"), symbol |-> "XB", description |-> <<"F", "O", "B", " ", "S">>,
       commodity |-> "Gasoil", currency |-> "USD"],
      [ID |-> Uri("AAGZU00"), symbol |-> "CL", description |-> <<"R">>,
       commodity |-> "SP500", currency |-> "SIN"],
      [ID |-> Uri("SP500"), symbol |-> "SPX", description |-> NaN,
       commodity |-> "Index", currency |-> "USD"] }

\* a ports CSV, with or without its "port" column
PortCsvs ==
    { [cols |-> {"ID", "port", "region"}, rows |-> r] : r \in SeqsUpTo(PortRowPool, MaxPorts) }
    \cup
    { [cols |-> {"ID", "region"}, rows |-> r] :
        r \in SeqsUpTo({row \in PortRowPool : row.port = NaN}, MaxPorts) }

\* a benchmarks CSV, with or without its "description" column
BenchCsvs ==
    { [cols |-> {"ID", "symbol", "description", "commodity", "currency", "uom"}, rows |-> r] :
        r \in SeqsUpTo(BenchRowPool, MaxBench) }
    \cup
    { [cols |-> {"ID", "symbol", "commodity", "currency", "uom"}, rows |-> r] :
        r \in SeqsUpTo({row \in BenchRowPool : row.description = NaN}, MaxBench) }

CurrCsvs ==
    { [cols |-> {"ID", "currencyCode", "currencyLabel"},
       rows |-> << [ID |-> Uri("USD"), currencyCode |-> "USD", currencyLabel |-> "US Dollar"] >>] }

InitMemory ==
    /\ ingestOut = "pending"
    /\ enrichOut = "pending"
    /\ renderOut = "pending"
    /\ ports = <<>>
    /\ benchmarks = <<>>
    /\ currencies = <<>>
    /\ scores = <<>>
    /\ matches = <<>>
    /\ dynamic_links = <<>>
    /\ fetchFailed = FALSE
    /\ market_data = NotLoaded
    /\ graph_data = NotLoaded
    /\ renderInput = <<>>

InitCleanIdle ==
    /\ text = <<>>
    /\ once = <<>>
    /\ twice = <<>>
    /\ cpc = "idle"

\* the whole pipeline, on a file system that holds raw CSVs only
Init ==
    /\ \E p \in { <<>> } \cup { <<c>> : c \in PortCsvs } :
       \E b \in { <<>> } \cup { <<c>> : c \in BenchCsvs } :
       \E c \in { <<>> } \cup { <<c>> : c \in CurrCsvs } :
          fs = [path \in Paths |->
                  CASE path = RAW_PORTS -> p
                    [] path = RAW_BENCHMARKS -> b
                    [] path = RAW_CURRENCIES -> c
                    [] OTHER -> <<>>]
    /\ pc = "ingest_ports"
    /\ InitMemory
    /\ InitCleanIdle

Next ==
    \/ IngestPorts
    \/ IngestBenchmarks
    \/ IngestCurrencies
    \/ EnrichLoad
    \/ EnrichResolve
    \/ EnrichFetch
    \/ EnrichBuild
    \/ EnrichWrite
    \/ Render

Spec == Init /\ [][Next]_vars

\* clean_text on every string over Alphabet of at most MaxTextLen characters
InitClean ==
    /\ text \in Texts
    /\ once = <<>>
    /\ twice = <<>>
    /\ cpc = "input"
    /\ fs = [path \in Paths |-> <<>>]
    /\ pc = "end"
    /\ InitMemory

NextClean ==
    \/ CleanOnce
    \/ CleanTwice

SpecClean == InitClean /\ [][NextClean]_vars

(***************************************************************************)
(* Properties.                                                             *)
(***************************************************************************)
\* resolve_logistics_links has just returned its list
LinksReturned == pc = "enrich_fetch"

\* build_knowledge_graph has returned its graph
GraphBuilt == pc = "enrich_write" \/ enrichOut = "complete"

NodeIds == {graph_data.nodes[k].id : k \in Indices(graph_data.nodes)}

\* C1: every edge of the assembled graph starts and ends at a node of the graph.
C1_NoDanglingEdge ==
    GraphBuilt =>
        \A k \in Indices(graph_data.edges) :
            graph_data.edges[k].from \in NodeIds /\ graph_data.edges[k].to \in NodeIds

\* C2: no two nodes of the assembled graph have the same id.
C2_UniqueNodeIds ==
    GraphBuilt =>
        \A j, k \in Indices(graph_data.nodes) :
            graph_data.nodes[j].id = graph_data.nodes[k].id => j = k

\* the cleaned description of every benchmark
CleanedDescriptions == [i \in Indices(benchmarks) |-> clean_text(benchmarks[i].description)]

\* the highest score of query q over the candidate names
BestOver(q, names) ==
    CHOOSE v \in {scores[<<q, n>>] : n \in names} :
        \A w \in {scores[<<q, n>>] : n \in names} : w <= v

\* C3: the returned links are, in benchmark order, exactly one link per benchmark
\* whose highest score over the candidate port names is strictly greater than 80,
\* from that benchmark's id to the id looked up for a best-scoring name; a
\* benchmark whose best score is 80 or less, or that has no candidate, gets none.
C3_OneLinkIffAboveThreshold ==
    LinksReturned =>
        LET lookup == port_lookup(ports)
            names  == DOMAIN lookup
            query  == CleanedDescriptions
            qualifying ==
                {i \in Indices(benchmarks) : names # {} /\ BestOver(query[i], names) > 80}
        IN  /\ Len(dynamic_links) = Cardinality(qualifying)
            /\ \A i \in qualifying :
                  LET link == dynamic_links[Cardinality({j \in qualifying : j <= i})]
                  IN  /\ link.from = benchmarks[i].id
                      /\ \E n \in names :
                            /\ scores[<<query[i], n>>] = BestOver(query[i], names)
                            /\ link.to = lookup[n]

\* a run where one benchmark's best score is exactly 80 and another's is above
\* it, and only the second is linked
C3_Witness ==
    /\ LinksReturned
    /\ Len(benchmarks) = 2
    /\ DOMAIN port_lookup(ports) # {}
    /\ BestOver(CleanedDescriptions[1], DOMAIN port_lookup(ports)) = 80
    /\ BestOver(CleanedDescriptions[2], DOMAIN port_lookup(ports)) > 80
    /\ Len(dynamic_links) = 1
    /\ dynamic_links[1].from = benchmarks[2].id

\* C4: a port of the port list has a node of group 'port' in the graph if and
\* only if its id is the target of at least one dynamic link.
C4_PortNodeIffLinked ==
    GraphBuilt =>
        \A i \in Indices(ports) :
            (\E k \in Indices(graph_data.nodes) :
                graph_data.nodes[k].id = ports[i].id /\ graph_data.nodes[k].group = "port")
            <=>
            (\E l \in Indices(dynamic_links) : dynamic_links[l].to = ports[i].id)

\* a graph built from two ports of which one is linked and has its node and the
\* other is not linked and has none
C4_Witness ==
    /\ GraphBuilt
    /\ \E i, j \in Indices(ports) :
          /\ \E l \in Indices(dynamic_links) : dynamic_links[l].to = ports[i].id
          /\ \E k \in Indices(graph_data.nodes) :
                graph_data.nodes[k].id = ports[i].id /\ graph_data.nodes[k].group = "port"
          /\ \A l \in Indices(dynamic_links) : dynamic_links[l].to # ports[j].id
          /\ ports[j].id \notin NodeIds

\* C5: cleaning a cleaned string changes nothing.
C5_CleanTextIdempotent == cpc = "twice" => twice = once

PayloadBenchmarkIds ==
    {Content(PAYLOAD_JSON).benchmarks[k].id : k \in Indices(Content(PAYLOAD_JSON).benchmarks)}

GraphBenchmarkIds ==
    {graph_data.nodes[k].id :
        k \in {j \in Indices(graph_data.nodes) : graph_data.nodes[j].group = "benchmark"}}

\* C6: the ids of the written payload's benchmark list, the ids of the graph's
\* benchmark nodes and the input benchmark ids that are keys of SYMBOL_MAP are
\* the same set.
C6_WhitelistConsistent ==
    enrichOut = "complete" =>
        /\ PayloadBenchmarkIds = GraphBenchmarkIds
        /\ GraphBenchmarkIds =
              {benchmarks[i].id : i \in Indices(benchmarks)} \cap DOMAIN SYMBOL_MAP
        /\ Content(PAYLOAD_JSON).graph = graph_data

\* a completed enrichment of a whitelisted and a non-whitelisted benchmark
C6_Witness ==
    /\ enrichOut = "complete"
    /\ \E i, j \in Indices(benchmarks) :
          /\ benchmarks[i].id \in DOMAIN SYMBOL_MAP
          /\ benchmarks[j].id \notin DOMAIN SYMBOL_MAP
          /\ benchmarks[i].id \in PayloadBenchmarkIds
          /\ benchmarks[j].id \notin PayloadBenchmarkIds

\* C7: run in order, the enrichment reads the three files the ingestion wrote
\* and the renderer reads the payload the enrichment wrote.
C7_StagesChained ==
    /\ (ingestOut = "complete" /\ enrichOut # "pending") =>
          /\ enrichOut # "FileNotFoundError"
          /\ ports = Content(PORTS_JSON)
          /\ benchmarks = Content(BENCHMARKS_JSON)
          /\ currencies = Content(CURRENCIES_JSON)
    /\ (enrichOut = "complete" /\ renderOut # "pending") =>
          /\ renderOut = "complete"
          /\ renderInput = fs[PAYLOAD_JSON]

\* C8: an ingestion that stops on a missing CSV has written none of its outputs.
C8_NoPartialIngestOutput ==
    ingestOut = "FileNotFoundError" =>
        /\ ~Exists(PORTS_JSON)
        /\ ~Exists(BENCHMARKS_JSON)
        /\ ~Exists(CURRENCIES_JSON)

\* C9: with a benchmark whose description is not a string, or a port whose name
\* is not a string, among its inputs, resolve_logistics_links does not raise.
C9_MalformedDoesNotRaise ==
    ((\E i \in Indices(benchmarks) : ~IsStr(benchmarks[i].description))
        \/ (\E i \in Indices(ports) : ~IsStr(ports[i].name)))
    => enrichOut # "AttributeError"

====
